---- MODULE Spec2Model ----
(***************************************************************************)
(* A model of lib_tar.c, a read-only accessor for USTAR archives.          *)
(*                                                                         *)
(* The archive is a byte stream behind a file descriptor.  The stream is   *)
(* modelled as the sequence of its header blocks (each followed by the     *)
(* data blocks its size field announces), a length in bytes (the stream    *)
(* may be cut short), the largest offset lseek accepts (-1 for a           *)
(* descriptor that cannot seek) and the offset from which read fails.      *)
(* C strings are sequences of character codes (the terminating NUL left    *)
(* out); fixed byte arrays (magic, version) are sequences holding their    *)
(* NULs as 0.  The name, prefix and linkname fields are taken to hold a    *)
(* NUL, and paths to fit the 256-byte buffers.                             *)
(*                                                                         *)
(* Each operation is one action: it computes the call's return value, its  *)
(* output and the offset the descriptor is left at from the stream and the *)
(* offset the descriptor had.  lseek(fd, 0, SEEK_CUR) after a whole block  *)
(* was read returns the offset behind that block.                          *)
(***************************************************************************)
EXTENDS Integers, Sequences, FiniteSets, TLC

VARIABLES tar, pos, last

vars == <<tar, pos, last>>

(***************************************************************************)
(* Bounds of the model.                                                    *)
(***************************************************************************)
\* number of blocks in an archive enumerated for check_archive
MaxHdrs == 3
\* number of entries in an archive enumerated for the path operations
MaxEntries == 2
\* largest capacity handed to list and read_file
MaxCap == 4
\* largest offset handed to read_file
MaxOffset == 11
\* longest symbolic-link chain built by InitChain
MaxChain == 17

(***************************************************************************)
(* Program constants.                                                      *)
(***************************************************************************)
\* sizeof(tar_header_t)
BLOCK == 512
\* size of the path buffers (char name[256], snprintf(out, 256, ...))
PATHBUF == 256
\* for (int depth = 0; depth < 16; depth++)
MAXDEPTH == 16
\* lib_tar.h: typeflag values
REGTYPE == 48
AREGTYPE == 0
SYMTYPE == 50
DIRTYPE == 53
\* lib_tar.h: #define TMAGIC "ustar", TMAGLEN 6, TVERSION "00", TVERSLEN 2
TMAGIC == <<117, 115, 116, 97, 114>>
TMAGLEN == 6
TVERSION == <<48, 48>>
TVERSLEN == 2
\* '/'
SLASH == 47

\* a stream without a seek limit or a failing offset
NoLimit == 2^30

Min(a, b) == IF a < b THEN a ELSE b
Max(a, b) == IF a < b THEN b ELSE a

(***************************************************************************)
(* C string primitives.                                                    *)
(***************************************************************************)
\* the first n characters of s (all of s when it is shorter)
Take(s, n) == SubSeq(s, 1, Min(n, Len(s)))

\* the C string a byte array holds: its bytes up to the first NUL
RECURSIVE CStrFrom(_, _)
CStrFrom(arr, i) ==
    IF i > Len(arr) \/ arr[i] = 0 THEN <<>>
    ELSE <<arr[i]>> \o CStrFrom(arr, i + 1)

CStr(arr) == CStrFrom(arr, 1)

\* strcmp(a, b) == 0
StrEq(a, b) == a = b

\* strncmp(a, b, n) == 0 on C strings: equal over the first n characters,
\* the comparison stopping at a NUL
StrnEq(a, b, n) == Take(a, n) = Take(b, n)

\* strchr(s, c): the index of the first c in s, 0 when there is none
RECURSIVE StrChrFrom(_, _, _)
StrChrFrom(s, c, i) ==
    IF i > Len(s) THEN 0
    ELSE IF s[i] = c THEN i
    ELSE StrChrFrom(s, c, i + 1)

StrChr(s, c) == StrChrFrom(s, c, 1)

\* strncpy(current, s, 255); current[255] = 0
CopyPath(s) == Take(s, PATHBUF - 1)

\* if (len > 0 && current[len - 1] == '/') current[len - 1] = 0
StripSlash(s) ==
    IF Len(s) > 0 /\ s[Len(s)] = SLASH THEN SubSeq(s, 1, Len(s) - 1) ELSE s

RECURSIVE SumSeq(_)
SumSeq(s) == IF s = <<>> THEN 0 ELSE Head(s) + SumSeq(Tail(s))

(***************************************************************************)
(* TAR_INT (lib_tar.h): strtol(field, NULL, 8).  Leading blanks are        *)
(* skipped, then octal digits are read up to the first other character.    *)
(***************************************************************************)
RECURSIVE OctDigits(_, _, _)
OctDigits(s, i, acc) ==
    IF i > Len(s) \/ s[i] < 48 \/ s[i] > 55 THEN acc
    ELSE OctDigits(s, i + 1, acc * 8 + (s[i] - 48))

RECURSIVE SkipBlanks(_, _)
SkipBlanks(s, i) ==
    IF i <= Len(s) /\ s[i] = 32 THEN SkipBlanks(s, i + 1) ELSE i

TAR_INT(s) == OctDigits(s, SkipBlanks(s, 1), 0)

\* the octal text of n, as an archiver writes it into a numeric field
RECURSIVE ToOct(_)
ToOct(n) == IF n < 8 THEN <<48 + n>> ELSE ToOct(n \div 8) \o <<48 + (n % 8)>>

(***************************************************************************)
(* Header blocks.                                                          *)
(***************************************************************************)
\* the all-zero block
ZeroBlock ==
    [name |-> <<>>, prefix |-> <<>>, linkname |-> <<>>, typeflag |-> 0,
     magic |-> <<0, 0, 0, 0, 0, 0>>, version |-> <<0, 0>>,
     size |-> <<>>, chksum |-> <<>>, pad |-> 0]

\* a block of file data read as a header: not all zero, no ustar magic
DataBlock ==
    [name |-> <<1, 1>>, prefix |-> <<1>>, linkname |-> <<1>>, typeflag |-> 1,
     magic |-> <<1, 1, 1, 1, 1, 1>>, version |-> <<1, 1>>,
     size |-> <<1>>, chksum |-> <<1>>, pad |-> 1]

\* is_empty_block: every byte of the block is 0
is_empty_block(hdr) ==
    /\ hdr.name = <<>> /\ hdr.prefix = <<>> /\ hdr.linkname = <<>>
    /\ hdr.typeflag = 0
    /\ \A i \in 1..Len(hdr.magic) : hdr.magic[i] = 0
    /\ \A i \in 1..Len(hdr.version) : hdr.version[i] = 0
    /\ hdr.size = <<>> /\ hdr.chksum = <<>>
    /\ hdr.pad = 0

\* header_path: "prefix/name" when prefix is not empty, else "name";
\* snprintf writes at most 255 characters
header_path(hdr) ==
    IF hdr.prefix # <<>>
    THEN Take(hdr.prefix \o <<SLASH>> \o hdr.name, PATHBUF - 1)
    ELSE Take(hdr.name, PATHBUF - 1)

\* the unsigned byte sum of the block with the checksum field set to
\* eight blanks (lines 171-178); 512 bytes sum to at most 130560, so the
\* unsigned int never wraps
ByteSum(hdr) ==
    SumSeq(hdr.name) + SumSeq(hdr.prefix) + SumSeq(hdr.linkname)
       + hdr.typeflag + SumSeq(hdr.magic) + SumSeq(hdr.version)
       + SumSeq(hdr.size) + 8 * 32 + hdr.pad

\* Jump without the rounding up to whole blocks
Jump_Unrounded(hdr) == TAR_INT(hdr.size)

\* ((size + 511) / 512) * 512
Jump(hdr) == ((TAR_INT(hdr.size) + (BLOCK - 1)) \div BLOCK) * BLOCK

(***************************************************************************)
(* The stream: lseek and read.                                             *)
(***************************************************************************)
\* the bytes an entry's data takes in the stream: its size field's value
\* padded to whole blocks
DataSpan(hdr) ==
    LET size == TAR_INT(hdr.size)
    IN  IF size % BLOCK = 0 THEN size ELSE size + (BLOCK - (size % BLOCK))

\* offset of the i-th header block: each block is followed by its data
RECURSIVE HdrOff(_, _)
HdrOff(hdrs, i) ==
    IF i = 1 THEN 0
    ELSE HdrOff(hdrs, i - 1) + BLOCK + DataSpan(hdrs[i - 1])

StreamBytes(hdrs) == HdrOff(hdrs, Len(hdrs) + 1)

\* the offsets of the header blocks, in stream order
Offsets(hdrs) == [i \in 1..Len(hdrs) |-> HdrOff(hdrs, i)]

\* the block at offset p read as a header (t.offs is Offsets(t.hdrs))
BlockAt(t, p) ==
    IF \E i \in 1..Len(t.hdrs) : t.offs[i] = p
    THEN t.hdrs[CHOOSE i \in 1..Len(t.hdrs) : t.offs[i] = p]
    ELSE DataBlock

\* the byte of the stream at offset k, as read_file sees it
ByteAt(k) == (k % 251) + 1

\* lseek(fd, target, SEEK_SET) (or SEEK_CUR to the same offset) succeeds
SeekOk(t, target) == target >= 0 /\ target <= t.seekMax

\* read(fd, buf, n) at offset p: -1 on an I/O error, else the number of
\* bytes the stream still holds there, at most n
ReadCount(t, p, n) ==
    IF p >= t.bad /\ n > 0 THEN -1
    ELSE Max(0, Min(n, Min(t.len, t.bad) - p))

\* the bytes such a read delivers
ReadBytes(t, p, n) ==
    [i \in 1..Max(0, ReadCount(t, p, n)) |-> ByteAt(p + i - 1)]

(***************************************************************************)
(* check_archive.  A result holds the return value, the position the       *)
(* stream is left at, and io: whether a seek failed or a header read       *)
(* gave other than a whole block during the call.                          *)
(***************************************************************************)
\* strncmp(hdr.magic, TMAGIC, TMAGLEN) != 0 || hdr.magic[TMAGLEN - 1] != '\0'
BadMagic(hdr) ==
    \/ ~StrnEq(CStr(hdr.magic), TMAGIC, TMAGLEN)
    \/ hdr.magic[TMAGLEN] # 0

\* strncmp(hdr.version, TVERSION, TVERSLEN) != 0
BadVersion(hdr) == ~StrnEq(CStr(hdr.version), TVERSION, TVERSLEN)

\* sum != expected
BadChecksum(hdr) == ByteSum(hdr) # TAR_INT(hdr.chksum)

\* CheckLoop with the checksum verified before magic and version
RECURSIVE CheckLoop_ChecksumFirst(_, _, _)
CheckLoop_ChecksumFirst(t, p, count) ==
    LET n == ReadCount(t, p, BLOCK)
        hdr == BlockAt(t, p)
        q == p + BLOCK
    IN  IF n # BLOCK THEN [ret |-> count, pos |-> p + Max(n, 0), io |-> TRUE]
        ELSE IF is_empty_block(hdr) THEN [ret |-> count, pos |-> q, io |-> FALSE]
        ELSE IF BadChecksum(hdr) THEN [ret |-> -3, pos |-> q, io |-> FALSE]
        ELSE IF BadMagic(hdr) THEN [ret |-> -1, pos |-> q, io |-> FALSE]
        ELSE IF BadVersion(hdr) THEN [ret |-> -2, pos |-> q, io |-> FALSE]
        ELSE IF ~SeekOk(t, q + Jump(hdr)) THEN [ret |-> -3, pos |-> q, io |-> TRUE]
        ELSE CheckLoop_ChecksumFirst(t, q + Jump(hdr), count + 1)

\* the while loop of check_archive, the stream at offset p
RECURSIVE CheckLoop(_, _, _)
CheckLoop(t, p, count) ==
    LET n == ReadCount(t, p, BLOCK)
        hdr == BlockAt(t, p)
        q == p + BLOCK
    IN  IF n # BLOCK THEN [ret |-> count, pos |-> p + Max(n, 0), io |-> TRUE]
        ELSE IF is_empty_block(hdr) THEN [ret |-> count, pos |-> q, io |-> FALSE]
        ELSE IF BadMagic(hdr) THEN [ret |-> -1, pos |-> q, io |-> FALSE]
        ELSE IF BadVersion(hdr) THEN [ret |-> -2, pos |-> q, io |-> FALSE]
        ELSE IF BadChecksum(hdr) THEN [ret |-> -3, pos |-> q, io |-> FALSE]
        ELSE IF ~SeekOk(t, q + Jump(hdr)) THEN [ret |-> -3, pos |-> q, io |-> TRUE]
        ELSE CheckLoop(t, q + Jump(hdr), count + 1)

\* check_archive(tar_fd), the stream at offset p0 when it is called
check_archive(t, p0) ==
    IF ~SeekOk(t, 0) THEN [ret |-> -3, pos |-> p0, io |-> TRUE]
    ELSE CheckLoop(t, 0, 0)

(***************************************************************************)
(* find_header and resolve_path.                                           *)
(***************************************************************************)
\* the comparison of an entry's path with the searched path (lines 53-67)
Match(hdr, path) ==
    LET name == header_path(hdr)
        len == Len(name)
    IN  IF hdr.typeflag = DIRTYPE
        THEN \/ StrEq(name, path)
             \/ /\ len > 0
                /\ name[len] = SLASH
                /\ StrnEq(name, path, len - 1)
                /\ Len(path) = len - 1
        ELSE StrEq(name, path)

NotFoundAt(p, io) ==
    [found |-> FALSE, hdr |-> ZeroBlock, off |-> 0, pos |-> p, io |-> io]

\* the while loop of find_header, the stream at offset p
RECURSIVE FindLoop(_, _, _)
FindLoop(t, p, path) ==
    LET n == ReadCount(t, p, BLOCK)
        hdr == BlockAt(t, p)
        data_off == p + BLOCK
    IN  IF n # BLOCK THEN NotFoundAt(p + Max(n, 0), TRUE)
        ELSE IF is_empty_block(hdr) THEN NotFoundAt(data_off, FALSE)
        ELSE IF Match(hdr, path)
        THEN [found |-> TRUE, hdr |-> hdr, off |-> data_off,
              pos |-> data_off, io |-> FALSE]
        ELSE IF ~SeekOk(t, data_off + Jump(hdr)) THEN NotFoundAt(data_off, TRUE)
        ELSE FindLoop(t, data_off + Jump(hdr), path)

\* find_header scanning from where the descriptor stands
find_header_NoRewind(t, p0, path) ==
    IF ~SeekOk(t, 0) THEN NotFoundAt(p0, TRUE)
    ELSE FindLoop(t, p0, path)

\* find_header(tar_fd, path, header, data_offset)
find_header(t, p0, path) ==
    IF ~SeekOk(t, 0) THEN NotFoundAt(p0, TRUE)
    ELSE FindLoop(t, 0, path)

Unresolved(p, io, lookups) ==
    [found |-> FALSE, hdr |-> ZeroBlock, off |-> 0, resolved |-> <<>>,
     pos |-> p, io |-> io, lookups |-> lookups]

\* the for loop of resolve_path; lookups counts the calls of find_header
RECURSIVE ResolveLoop(_, _, _, _, _)
ResolveLoop(t, p, current, depth, bound) ==
    IF depth >= bound THEN Unresolved(p, FALSE, depth)
    ELSE LET f == find_header(t, p, current)
         IN  IF ~f.found THEN Unresolved(f.pos, f.io, depth + 1)
             ELSE IF f.hdr.typeflag = SYMTYPE
             THEN ResolveLoop(t, f.pos, StripSlash(CopyPath(f.hdr.linkname)),
                              depth + 1, bound)
             ELSE [found |-> TRUE, hdr |-> f.hdr, off |-> f.off,
                   resolved |-> header_path(f.hdr), pos |-> f.pos,
                   io |-> FALSE, lookups |-> depth + 1]

\* resolve_path following twice as many links
resolve_path_TwiceAsDeep(t, p0, path) ==
    ResolveLoop(t, p0, StripSlash(CopyPath(path)), 0, 2 * MAXDEPTH)

\* resolve_path(tar_fd, path, header, data_offset, resolved)
resolve_path(t, p0, path) ==
    ResolveLoop(t, p0, StripSlash(CopyPath(path)), 0, MAXDEPTH)

(***************************************************************************)
(* exists, is_dir, is_file, is_symlink: 1 or 0 as the C expression gives.  *)
(***************************************************************************)
Bool(b) == IF b THEN 1 ELSE 0

exists(t, p0, path) ==
    LET f == find_header(t, p0, path)
    IN  [ret |-> Bool(f.found), pos |-> f.pos, io |-> f.io]

is_dir(t, p0, path) ==
    LET f == find_header(t, p0, path)
    IN  [ret |-> Bool(f.found /\ f.hdr.typeflag = DIRTYPE),
         pos |-> f.pos, io |-> f.io]

is_file(t, p0, path) ==
    LET f == find_header(t, p0, path)
    IN  [ret |-> Bool(f.found /\ (f.hdr.typeflag = REGTYPE
                                   \/ f.hdr.typeflag = AREGTYPE)),
         pos |-> f.pos, io |-> f.io]

is_symlink(t, p0, path) ==
    LET f == find_header(t, p0, path)
    IN  [ret |-> Bool(f.found /\ f.hdr.typeflag = SYMTYPE),
         pos |-> f.pos, io |-> f.io]

(***************************************************************************)
(* list.  buf is the caller's array of capacity slots, Fresh where list    *)
(* wrote nothing; n is *no_entries when list returns.                      *)
(***************************************************************************)
\* a slot of the caller's array that was not written (no entry path is this)
Fresh == <<0>>

FreshBuf(capacity) == [i \in 1..capacity |-> Fresh]

\* strcpy(entries[i - 1], name): slot i of the array written, the array
\* taken to reach as far as the write does
Put(buf, i, name) ==
    [j \in 1..Max(Len(buf), i) |->
        IF j = i THEN name ELSE IF j <= Len(buf) THEN buf[j] ELSE Fresh]

\* IsChild without the test on the rest of the path: every descendant
IsChild_Descendants(name, base) ==
    /\ StrnEq(name, base, Len(base))
    /\ ~StrEq(name, base)

\* line 326 letting one entry more through
HasRoom_OneMore(count, capacity) == count <= capacity

\* line 326: if (count < capacity)
HasRoom(count, capacity) == count < capacity

\* lines 322-325: the entry is a direct child of base
IsChild(name, base) ==
    /\ StrnEq(name, base, Len(base))
    /\ ~StrEq(name, base)
    /\ LET rest == SubSeq(name, Len(base) + 1, Len(name))
           slash == StrChr(rest, SLASH)
       IN  slash = 0 \/ slash = Len(rest)

\* the while loop of list, the stream at offset p, count entries written
RECURSIVE ListLoop(_, _, _, _, _, _)
ListLoop(t, p, base, capacity, buf, count) ==
    LET n == ReadCount(t, p, BLOCK)
        hdr == BlockAt(t, p)
        name == header_path(hdr)
        data_off == p + BLOCK
        write == IsChild(name, base) /\ HasRoom(count, capacity)
        buf2 == IF write THEN Put(buf, count + 1, name) ELSE buf
        count2 == IF write THEN count + 1 ELSE count
    IN  IF n # BLOCK
        THEN [ret |-> 1, n |-> count, buf |-> buf, pos |-> p + Max(n, 0),
              io |-> TRUE]
        ELSE IF is_empty_block(hdr)
        THEN [ret |-> 1, n |-> count, buf |-> buf, pos |-> data_off,
              io |-> FALSE]
        ELSE IF ~SeekOk(t, data_off + Jump(hdr))
        THEN [ret |-> 1, n |-> count2, buf |-> buf2, pos |-> data_off,
              io |-> TRUE]
        ELSE ListLoop(t, data_off + Jump(hdr), base, capacity, buf2, count2)

\* lines 295-299: the resolved path with a '/' appended if it lacks one
\* (an empty resolved path stays empty)
BaseOf(resolved) ==
    IF Len(resolved) > 0 /\ resolved[Len(resolved)] # SLASH
    THEN resolved \o <<SLASH>>
    ELSE resolved

\* the scan of list (lines 304-340), the prefix base known
ListScan(t, p, base, capacity) ==
    IF ~SeekOk(t, 0)
    THEN [ret |-> 0, n |-> 0, buf |-> FreshBuf(capacity), pos |-> p, io |-> TRUE]
    ELSE ListLoop(t, 0, base, capacity, FreshBuf(capacity), 0)

\* list(tar_fd, path, entries, no_entries), *no_entries = capacity on entry
list(t, p0, path, capacity) ==
    IF path # <<>>
    THEN LET r == resolve_path(t, p0, path)
         IN  IF ~r.found \/ r.hdr.typeflag # DIRTYPE
             THEN [ret |-> 0, n |-> 0, buf |-> FreshBuf(capacity),
                   pos |-> r.pos, io |-> r.io]
             ELSE ListScan(t, r.pos, BaseOf(r.resolved), capacity)
    ELSE ListScan(t, p0, <<>>, capacity)

(***************************************************************************)
(* read_file.  buf is dest (0 where nothing was written), n is *len when   *)
(* read_file returns (the capacity when it was not assigned).              *)
(***************************************************************************)
ZeroBuf(capacity) == [i \in 1..capacity |-> 0]

ReadFail(ret, capacity, p, io) ==
    [ret |-> ret, n |-> capacity, buf |-> ZeroBuf(capacity), pos |-> p,
     io |-> io]

\* ReadData refusing the offset that equals the size
ReadData_EndRefused(t, p, hdr, data_off, offset, capacity) ==
    LET size == TAR_INT(hdr.size)
        to_read == Min(size - offset, capacity)
        r == ReadCount(t, data_off + offset, to_read)
        bytes == ReadBytes(t, data_off + offset, to_read)
    IN  IF offset >= size THEN ReadFail(-2, capacity, p, FALSE)
        ELSE IF ~SeekOk(t, data_off + offset) THEN ReadFail(-1, capacity, p, TRUE)
        ELSE IF r < 0 THEN ReadFail(-1, capacity, data_off + offset, TRUE)
        ELSE [ret |-> IF offset + r < size THEN size - offset - r ELSE 0,
              n |-> r,
              buf |-> [i \in 1..capacity |->
                          IF i <= r THEN bytes[i] ELSE 0],
              pos |-> data_off + offset + r,
              io |-> FALSE]

\* lines 372-395, the entry resolved to header hdr with its data at data_off
ReadData(t, p, hdr, data_off, offset, capacity) ==
    LET size == TAR_INT(hdr.size)
        to_read == Min(size - offset, capacity)
        r == ReadCount(t, data_off + offset, to_read)
        bytes == ReadBytes(t, data_off + offset, to_read)
    IN  IF offset > size THEN ReadFail(-2, capacity, p, FALSE)
        ELSE IF ~SeekOk(t, data_off + offset) THEN ReadFail(-1, capacity, p, TRUE)
        ELSE IF r < 0 THEN ReadFail(-1, capacity, data_off + offset, TRUE)
        ELSE [ret |-> IF offset + r < size THEN size - offset - r ELSE 0,
              n |-> r,
              buf |-> [i \in 1..capacity |->
                          IF i <= r THEN bytes[i] ELSE 0],
              pos |-> data_off + offset + r,
              io |-> FALSE]

\* read_file(tar_fd, path, offset, dest, len), *len = capacity on entry
read_file(t, p0, path, offset, capacity) ==
    LET r == resolve_path(t, p0, path)
    IN  IF ~r.found THEN ReadFail(-1, capacity, r.pos, r.io)
        ELSE IF ~(r.hdr.typeflag = REGTYPE \/ r.hdr.typeflag = AREGTYPE)
        THEN ReadFail(-1, capacity, r.pos, FALSE)
        ELSE ReadData(t, r.pos, r.hdr, r.off, offset, capacity)

(***************************************************************************)
(* Archives.                                                               *)
(***************************************************************************)
\* the magic, version and checksum of a header an archiver wrote, and the
\* values a damaged header holds instead
GoodMagic == TMAGIC \o <<0>>
GnuMagic == TMAGIC \o <<32>>
GnuVersion == <<32, 0>>

\* a header block; defects is the set of fields written wrongly
Hdr(name, prefix, typeflag, linkname, size, defects) ==
    LET h0 == [name |-> name, prefix |-> prefix, linkname |-> linkname,
               typeflag |-> typeflag,
               magic |-> IF "magic" \in defects THEN GnuMagic ELSE GoodMagic,
               version |-> IF "version" \in defects THEN GnuVersion ELSE TVERSION,
               size |-> ToOct(size), chksum |-> <<>>, pad |-> 0]
    IN  [h0 EXCEPT !.chksum = IF "chksum" \in defects
                               THEN ToOct(ByteSum(h0) + 1)
                               ELSE ToOct(ByteSum(h0))]

File(name, size) == Hdr(name, <<>>, REGTYPE, <<>>, size, {})
OldFile(name, size) == Hdr(name, <<>>, AREGTYPE, <<>>, size, {})
Dir(name) == Hdr(name, <<>>, DIRTYPE, <<>>, 0, {})
Link(name, target) == Hdr(name, <<>>, SYMTYPE, target, 0, {})

\* sequences over S of length at most n
RECURSIVE SeqsUpTo(_, _)
SeqsUpTo(S, n) ==
    IF n = 0 THEN {<<>>}
    ELSE LET shorter == SeqsUpTo(S, n - 1)
         IN  shorter \cup {Append(q, x) : q \in {r \in shorter : Len(r) = n - 1}, x \in S}

\* a whole, seekable stream holding the given blocks and the two all-zero
\* blocks an archiver ends an archive with
Closed(hdrs) ==
    LET all == hdrs \o <<ZeroBlock, ZeroBlock>>
    IN  [hdrs |-> all, offs |-> Offsets(all), len |-> StreamBytes(all),
         seekMax |-> NoLimit, bad |-> NoLimit]

\* the stream is whole: every byte of its blocks can be sought and read
Intact(t) ==
    /\ t.len = StreamBytes(t.hdrs)
    /\ t.seekMax = NoLimit
    /\ t.bad = NoLimit

(***************************************************************************)
(* The state machine: tar is the stream behind the descriptor, pos its     *)
(* current offset, last the latest call with its arguments and results.    *)
(***************************************************************************)
NoCall ==
    [op |-> "none", path |-> <<>>, offset |-> 0, cap |-> 0, moved |-> FALSE,
     ret |-> 0, n |-> 0, buf |-> <<>>, io |-> FALSE]

\* the record of a call made with the descriptor at pos; moved tells that
\* the call did not find the descriptor at offset 0
Call(op, path, offset, cap, r, n, buf) ==
    [op |-> op, path |-> path, offset |-> offset, cap |-> cap,
     moved |-> pos # 0, ret |-> r.ret, n |-> n, buf |-> buf, io |-> r.io]

\* offsets the caller may leave the descriptor at
StartPositions == {0, BLOCK, BLOCK + 7, 2 * BLOCK}

\* the paths asked for: "", a, d, d/, d/a, d/c, l, l/, x
QueryPaths ==
    {<<>>, <<97>>, <<100>>, <<100, 47>>, <<100, 47, 97>>, <<100, 47, 99>>,
     <<108>>, <<108, 47>>, <<120>>}

\* the paths asked for where every operation is tried: "", a, d, d/, l
CorePaths == {<<>>, <<97>>, <<100>>, <<100, 47>>, <<108>>}

\* no call was made since the caller last set the descriptor's offset
Idle == last.op \in {"none", "lseek"}

\* the caller's own lseek on the descriptor between two calls
CallerSeekTo(positions) ==
    /\ \E p \in positions : pos' = p /\ p # pos
    /\ last' = [NoCall EXCEPT !.op = "lseek"]
    /\ UNCHANGED tar

CallerSeek == CallerSeekTo(StartPositions)

\* the caller rewinds the descriptor or leaves it inside a block
CallerMoves == CallerSeekTo({0, BLOCK + 7})

CheckArchive ==
    \E r \in {check_archive(tar, pos)} :
        /\ pos' = r.pos
        /\ last' = Call("check_archive", <<>>, 0, 0, r, 0, <<>>)
        /\ UNCHANGED tar

ExistsIn(paths) ==
    \E path \in paths : \E r \in {exists(tar, pos, path)} :
        /\ pos' = r.pos
        /\ last' = Call("exists", path, 0, 0, r, 0, <<>>)
        /\ UNCHANGED tar

IsDirIn(paths) ==
    \E path \in paths : \E r \in {is_dir(tar, pos, path)} :
        /\ pos' = r.pos
        /\ last' = Call("is_dir", path, 0, 0, r, 0, <<>>)
        /\ UNCHANGED tar

IsFileIn(paths) ==
    \E path \in paths : \E r \in {is_file(tar, pos, path)} :
        /\ pos' = r.pos
        /\ last' = Call("is_file", path, 0, 0, r, 0, <<>>)
        /\ UNCHANGED tar

IsSymlinkIn(paths) ==
    \E path \in paths : \E r \in {is_symlink(tar, pos, path)} :
        /\ pos' = r.pos
        /\ last' = Call("is_symlink", path, 0, 0, r, 0, <<>>)
        /\ UNCHANGED tar

ListIn(paths, caps) ==
    \E path \in paths, cap \in caps : \E r \in {list(tar, pos, path, cap)} :
        /\ pos' = r.pos
        /\ last' = Call("list", path, 0, cap, r, r.n, r.buf)
        /\ UNCHANGED tar

ReadFileIn(paths, offsets, caps) ==
    \E path \in paths, offset \in offsets, cap \in caps :
        \E r \in {read_file(tar, pos, path, offset, cap)} :
            /\ pos' = r.pos
            /\ last' = Call("read_file", path, offset, cap, r, r.n, r.buf)
            /\ UNCHANGED tar

\* the operations as any sequence of calls tries them
Exists == ExistsIn(CorePaths)
IsDir == IsDirIn(CorePaths)
IsFile == IsFileIn(CorePaths)
IsSymlink == IsSymlinkIn(CorePaths)
List == ListIn(CorePaths, {0, 1, MaxCap})
ReadFile == ReadFileIn(CorePaths, {0, 1, MaxOffset}, {0, MaxCap})

Next ==
    \/ CallerSeek
    \/ CheckArchive
    \/ Exists
    \/ IsDir
    \/ IsFile
    \/ IsSymlink
    \/ List
    \/ ReadFile

(***************************************************************************)
(* Archives for check_archive: whole streams of up to MaxHdrs blocks, each *)
(* a sound header, a header with some of magic, version and checksum       *)
(* wrong, or an all-zero block.                                            *)
(***************************************************************************)
CheckBlocks ==
    {File(<<97>>, 0), File(<<98>>, 10), OldFile(<<99>>, 513), Dir(<<100, 47>>),
     ZeroBlock}
    \cup {Hdr(<<97>>, <<>>, REGTYPE, <<>>, 10, D) :
             D \in (SUBSET {"magic", "version", "chksum"}) \ {{}}}

CheckArchives == {Closed(q) : q \in SeqsUpTo(CheckBlocks, MaxHdrs)}

InitCheck ==
    /\ tar \in CheckArchives
    /\ pos = 0
    /\ last = NoCall

NextCheck == CallerMoves \/ CheckArchive

SpecCheck == InitCheck /\ [][NextCheck]_vars

(***************************************************************************)
(* What the claims speak of, stated on the archive's blocks in stream      *)
(* order rather than on the code's scan.                                   *)
(***************************************************************************)
\* index of the first all-zero block, 0 when there is none
FirstZero(hdrs) ==
    IF \E i \in 1..Len(hdrs) : hdrs[i] = ZeroBlock
    THEN CHOOSE i \in 1..Len(hdrs) :
             /\ hdrs[i] = ZeroBlock
             /\ \A j \in 1..(i - 1) : hdrs[j] # ZeroBlock
    ELSE 0

\* the headers of the archive: the blocks before the first all-zero block
EntryCount(hdrs) ==
    IF FirstZero(hdrs) = 0 THEN Len(hdrs) ELSE FirstZero(hdrs) - 1

MagicIsUstar(h) == h.magic = <<117, 115, 116, 97, 114, 0>>
VersionIs00(h) == h.version = <<48, 48>>
ChecksumAgrees(h) == TAR_INT(h.chksum) = ByteSum(h)
Sound(h) == MagicIsUstar(h) /\ VersionIs00(h) /\ ChecksumAgrees(h)

\* index of the first header that is not sound, 0 when all are
FirstDefect(hdrs) ==
    IF \E i \in 1..EntryCount(hdrs) : ~Sound(hdrs[i])
    THEN CHOOSE i \in 1..EntryCount(hdrs) :
             /\ ~Sound(hdrs[i])
             /\ \A j \in 1..(i - 1) : Sound(hdrs[j])
    ELSE 0

\* C1: on a whole stream check_archive returns the error of the first
\* unsound header in stream order, and of that header the first failing
\* check in the order magic, version, checksum: -1 for a wrong magic whatever
\* the version and checksum are, -2 for a right magic and a wrong version
\* whatever the checksum is, -3 only when magic and version are both right.
C1_ValidationOrder ==
    (last.op = "check_archive" /\ Intact(tar) /\ FirstDefect(tar.hdrs) # 0) =>
        LET h == tar.hdrs[FirstDefect(tar.hdrs)]
        IN  last.ret = IF ~MagicIsUstar(h) THEN -1
                       ELSE IF ~VersionIs00(h) THEN -2
                       ELSE -3

\* a sound header, then one with magic, version and checksum all wrong:
\* the magic error is reported
C1_Witness ==
    /\ last.op = "check_archive"
    /\ Intact(tar)
    /\ FirstDefect(tar.hdrs) = 2
    /\ ~MagicIsUstar(tar.hdrs[2])
    /\ ~VersionIs00(tar.hdrs[2])
    /\ ~ChecksumAgrees(tar.hdrs[2])
    /\ last.ret = -1

\* C2: on a whole stream whose headers before the first all-zero block are
\* all sound, check_archive returns the number of those headers (0 when the
\* first block is all zero), the headers lying 512 + ceil(size/512)*512
\* bytes apart.
C2_CountsHeaders ==
    (last.op = "check_archive" /\ Intact(tar) /\ FirstZero(tar.hdrs) # 0
       /\ FirstDefect(tar.hdrs) = 0) =>
        last.ret = FirstZero(tar.hdrs) - 1

\* three sound headers, one of them with data that ends inside a block
C2_Witness ==
    /\ last.op = "check_archive"
    /\ Intact(tar)
    /\ FirstDefect(tar.hdrs) = 0
    /\ FirstZero(tar.hdrs) = 4
    /\ \E i \in 1..2 : TAR_INT(tar.hdrs[i].size) % BLOCK # 0
    /\ last.ret = 3
    /\ last.moved

(***************************************************************************)
(* Archives for list: whole streams of up to MaxEntries entries of a small *)
(* tree, and the tree of the comment above list.                           *)
(***************************************************************************)
ListBlocks ==
    {Dir(<<100, 47>>), Dir(<<100>>), File(<<100, 47, 97>>, 0),
     Dir(<<100, 47, 99, 47>>), File(<<100, 47, 99, 47, 97>>, 0),
     Hdr(<<98>>, <<100>>, REGTYPE, <<>>, 10, {}), File(<<97>>, 513),
     File(<<100, 97>>, 0), Link(<<108>>, <<100, 47>>), ZeroBlock}

\* dir/ holding a, b, c/ (holding d) and e/
ExampleTree ==
    <<Dir(<<100, 47>>), File(<<100, 47, 97>>, 10), File(<<100, 47, 98>>, 0),
      Dir(<<100, 47, 99, 47>>), File(<<100, 47, 99, 47, 100>>, 513),
      Dir(<<100, 47, 101, 47>>)>>

ListArchives ==
    {Closed(q) : q \in SeqsUpTo(ListBlocks, MaxEntries) \cup {ExampleTree}}

InitList ==
    /\ tar \in ListArchives
    /\ pos = 0
    /\ last = NoCall

\* one call of list, with any path and capacity, from each offset the caller
\* may leave the descriptor at
ListOnce == Idle /\ ListIn(QueryPaths, 0..MaxCap)

NextList == CallerMoves \/ ListOnce

SpecList == InitList /\ [][NextList]_vars

\* the paths of the archive's entries, in stream order
RECURSIVE EntryPathsFrom(_, _)
EntryPathsFrom(hdrs, i) ==
    IF i > EntryCount(hdrs) THEN <<>>
    ELSE <<(IF hdrs[i].prefix = <<>> THEN hdrs[i].name
            ELSE hdrs[i].prefix \o <<47>> \o hdrs[i].name)>>
         \o EntryPathsFrom(hdrs, i + 1)

EntryPaths(hdrs) == EntryPathsFrom(hdrs, 1)

Slashes(s) == Cardinality({i \in 1..Len(s) : s[i] = 47})

\* name lies directly in the directory whose path with its final '/' is dir
\* (dir is empty for the archive's top level)
DirectChild(name, dir) ==
    /\ Len(name) > Len(dir)
    /\ SubSeq(name, 1, Len(dir)) = dir
    /\ LET rest == SubSeq(name, Len(dir) + 1, Len(name))
       IN  \/ Slashes(rest) = 0
           \/ Slashes(rest) = 1 /\ rest[Len(rest)] = 47

ChildrenOf(hdrs, dir) ==
    SelectSeq(EntryPaths(hdrs), LAMBDA name : DirectChild(name, dir))

\* no directory (no path holds a NUL)
NoDir == <<0>>

\* the directory a list call is about: the top level for the empty path,
\* else the directory entry the path resolves to; NoDir otherwise
ListedDir(t, path) ==
    IF path = <<>> THEN <<>>
    ELSE LET r == resolve_path(t, 0, path)
             d == header_path(r.hdr)
         IN  IF ~r.found \/ r.hdr.typeflag # DIRTYPE \/ d = <<>> THEN NoDir
             ELSE IF d[Len(d)] = 47 THEN d ELSE d \o <<47>>

\* C4: list on a directory of a whole stream, the capacity sufficing,
\* succeeds and reports exactly the direct children in stream order: the
\* entries whose path starts with the directory's path ending in '/', is
\* longer than it, and goes on without a '/' except possibly a final one.
\* The empty path lists the top-level entries.
C4_DirectChildren ==
    (last.op = "list" /\ Intact(tar) /\ ListedDir(tar, last.path) # NoDir
       /\ Len(ChildrenOf(tar.hdrs, ListedDir(tar, last.path))) <= last.cap) =>
        LET kids == ChildrenOf(tar.hdrs, ListedDir(tar, last.path))
        IN  /\ last.ret = 1
            /\ last.n = Len(kids)
            /\ SubSeq(last.buf, 1, last.n) = kids

\* the tree of the comment above list: dir/a, dir/b, dir/c/ and dir/e/ are
\* listed, dir/c/d is not
C4_Witness ==
    /\ last.op = "list"
    /\ tar = Closed(ExampleTree)
    /\ last.path = <<100>>
    /\ last.buf = <<<<100, 47, 97>>, <<100, 47, 98>>, <<100, 47, 99, 47>>,
                    <<100, 47, 101, 47>>>>
    /\ last.n = 4

\* C5: list never writes beyond the caller's capacity, whatever the archive
\* and the capacity: with T direct children it writes the first
\* min(T, capacity) of them, in stream order, into the first slots, leaves
\* the other slots alone and reports min(T, capacity); on a NotFound result
\* it reports 0 and writes nothing.
C5_CapacityBound ==
    last.op = "list" =>
        /\ Len(last.buf) = last.cap
        /\ last.n <= last.cap
        /\ \A i \in (last.n + 1)..last.cap : last.buf[i] = Fresh
        /\ last.ret = 0 => last.n = 0
        /\ (Intact(tar) /\ ListedDir(tar, last.path) # NoDir) =>
              LET kids == ChildrenOf(tar.hdrs, ListedDir(tar, last.path))
              IN  /\ last.n = Min(Len(kids), last.cap)
                  /\ SubSeq(last.buf, 1, last.n) = SubSeq(kids, 1, last.n)
        /\ ListedDir(tar, last.path) = NoDir => last.ret = 0

\* four children and room for two: the first two are written, 2 is reported
C5_Witness ==
    /\ last.op = "list"
    /\ tar = Closed(ExampleTree)
    /\ last.path = <<100, 47>>
    /\ last.cap = 2
    /\ last.n = 2
    /\ last.buf = <<<<100, 47, 97>>, <<100, 47, 98>>>>

(***************************************************************************)
(* Archives for read_file: whole streams of up to MaxEntries entries among *)
(* regular files of several sizes, a directory, links and a hard link.     *)
(***************************************************************************)
ReadBlocks ==
    {File(<<97>>, 10), OldFile(<<97>>, 0), File(<<100, 47, 97>>, 513),
     Dir(<<100, 47>>), Link(<<108>>, <<97>>), Link(<<108>>, <<100>>),
     Hdr(<<97>>, <<>>, 49, <<120>>, 0, {})}

ReadArchives == {Closed(q) : q \in SeqsUpTo(ReadBlocks, MaxEntries)}

\* the paths read: a, d/a, d, l, l/, x
ReadPaths ==
    {<<97>>, <<100, 47, 97>>, <<100>>, <<108>>, <<108, 47>>, <<120>>}

InitRead ==
    /\ tar \in ReadArchives
    /\ pos = 0
    /\ last = NoCall

\* one call of read_file, with any path, offset and capacity, from each
\* offset the caller may leave the descriptor at
ReadOnce == Idle /\ ReadFileIn(ReadPaths, 0..MaxOffset, 0..MaxCap)

NextRead == CallerMoves \/ ReadOnce

SpecRead == InitRead /\ [][NextRead]_vars

IsRegular(h) == h.typeflag = 48 \/ h.typeflag = 0

\* where the data of the first block equal to h starts in the stream
DataStart(t, h) ==
    t.offs[CHOOSE i \in 1..Len(t.hdrs) :
               /\ t.hdrs[i] = h
               /\ \A j \in 1..(i - 1) : t.hdrs[j] # h] + BLOCK

\* C3: on a whole stream, read_file on a path that resolves, through links
\* if any, to a regular file of declared size S, with offset o and capacity
\* C: fails with -2 if o > S; else writes the n = min(S - o, C) bytes o ..
\* o+n-1 of the file, sets the length to n and returns S - o - n, which is
\* 0 exactly when o + n = S (so o = S gives 0 bytes and 0).  A path that
\* does not resolve to a regular file fails with -1 whatever the offset is.
C3_ReadFile ==
    (last.op = "read_file" /\ Intact(tar)) =>
        LET r == resolve_path(tar, 0, last.path)
            S == TAR_INT(r.hdr.size)
            o == last.offset
            C == last.cap
            n == Min(S - o, C)
        IN  IF ~r.found \/ ~IsRegular(r.hdr) THEN last.ret = -1
            ELSE IF o > S THEN last.ret = -2
            ELSE /\ last.n = n
                 /\ last.ret = S - o - n
                 /\ (last.ret = 0) <=> (o + n = S)
                 /\ \A i \in 1..n :
                       last.buf[i] = ByteAt(DataStart(tar, r.hdr) + o + i - 1)
                 /\ \A i \in (n + 1)..C : last.buf[i] = 0

\* the last of the three reads of a file of size 10 with capacity 4, behind
\* a link: offset 8 gives 2 bytes and 0 remaining
C3_Witness ==
    /\ last.op = "read_file"
    /\ Intact(tar)
    /\ tar.hdrs[1] = Link(<<108>>, <<97>>)
    /\ tar.hdrs[2] = File(<<97>>, 10)
    /\ last.path = <<108>>
    /\ last.offset = 8
    /\ last.cap = 4
    /\ last.n = 2
    /\ last.ret = 0
    /\ last.buf = <<ByteAt(2 * BLOCK + 8), ByteAt(2 * BLOCK + 9), 0, 0>>

(***************************************************************************)
(* Archives for the lookups: whole streams of up to MaxEntries entries     *)
(* among directories stored with and without a final '/', files, and links *)
(* that reach an entry, themselves, each other or nothing; and a cycle of  *)
(* three links.                                                            *)
(***************************************************************************)
LookupBlocks ==
    {Dir(<<100, 47>>), Dir(<<100>>), File(<<100>>, 0), File(<<97>>, 10),
     Link(<<108>>, <<108>>), Link(<<108>>, <<109>>), Link(<<109>>, <<108>>),
     Link(<<108>>, <<120>>), Link(<<108>>, <<100, 47>>),
     Link(<<108>>, <<97>>)}

\* l -> m -> n -> l
Cycle3 ==
    <<Link(<<108>>, <<109>>), Link(<<109>>, <<110>>), Link(<<110>>, <<108>>)>>

LookupArchives ==
    {Closed(q) : q \in SeqsUpTo(LookupBlocks, MaxEntries) \cup {Cycle3}}

\* the paths looked up: a, d, d/, l, l/, m, x
LookupPaths ==
    {<<97>>, <<100>>, <<100, 47>>, <<108>>, <<108, 47>>, <<109>>, <<120>>}

InitLookup ==
    /\ tar \in LookupArchives
    /\ pos = 0
    /\ last = NoCall

ExistsOnce == Idle /\ ExistsIn(LookupPaths)
IsDirOnce == Idle /\ IsDirIn(LookupPaths)
ListPathOnce == Idle /\ ListIn(LookupPaths, {MaxCap})
ReadPathOnce == Idle /\ ReadFileIn(LookupPaths, {0}, {MaxCap})

NextLookup ==
    \/ CallerMoves
    \/ ExistsOnce
    \/ IsDirOnce
    \/ ListPathOnce
    \/ ReadPathOnce

SpecLookup == InitLookup /\ [][NextLookup]_vars

\* the path with its final '/' taken off, or put on when it has none
Toggle(path) ==
    IF path # <<>> /\ path[Len(path)] = 47
    THEN SubSeq(path, 1, Len(path) - 1)
    ELSE path \o <<47>>

NoSlash(path) ==
    IF path # <<>> /\ path[Len(path)] = 47
    THEN SubSeq(path, 1, Len(path) - 1)
    ELSE path

\* the path names a directory entry of the archive, final '/' or not
NamesDirectory(t, path) ==
    /\ path # <<>>
    /\ \E i \in 1..EntryCount(t.hdrs) :
          /\ t.hdrs[i].typeflag = 53
          /\ NoSlash(EntryPaths(t.hdrs)[i]) = NoSlash(path)

\* C6: a directory is looked up alike with and without a final '/' on the
\* path: exists and is_dir (find_header) give the same answer, header and
\* data offset for both forms, and so does list (resolve_path).
C6_TrailingSlash ==
    (last.op \in {"exists", "is_dir", "list"}
       /\ NamesDirectory(tar, last.path)) =>
        LET other == Toggle(last.path)
        IN  /\ last.op = "exists" =>
                  /\ last.ret = exists(tar, 0, other).ret
                  /\ LET f == find_header(tar, 0, last.path)
                         g == find_header(tar, 0, other)
                     IN  f.found = g.found /\ f.hdr = g.hdr /\ f.off = g.off
            /\ last.op = "is_dir" => last.ret = is_dir(tar, 0, other).ret
            /\ last.op = "list" =>
                  LET r == list(tar, 0, other, last.cap)
                  IN  last.ret = r.ret /\ last.n = r.n /\ last.buf = r.buf

\* where following the links from path ends: at an entry that is no link
\* ("entry"), at a path no entry has ("absent"), or nowhere ("cycle": more
\* links were followed than the archive has blocks)
RECURSIVE Follow(_, _, _)
Follow(t, current, fuel) ==
    LET f == find_header(t, 0, current)
    IN  IF ~f.found THEN "absent"
        ELSE IF f.hdr.typeflag # 50 THEN "entry"
        ELSE IF fuel = 0 THEN "cycle"
        ELSE Follow(t, NoSlash(f.hdr.linkname), fuel - 1)

NeverReaches(t, path) == Follow(t, NoSlash(path), Len(t.hdrs)) # "entry"

\* C8: when following the links from the path never reaches an entry that
\* is no link (a link to itself, a cycle, a link to nothing), resolve_path
\* gives up after at most 16 lookups and reports NotFound: list returns 0
\* and read_file returns -1.
C8_ResolutionTerminates ==
    (last.op \in {"list", "read_file"} /\ last.path # <<>>
       /\ NeverReaches(tar, last.path)) =>
        LET r == resolve_path(tar, 0, last.path)
        IN  /\ ~r.found
            /\ r.lookups <= 16
            /\ last.op = "list" => last.ret = 0 /\ last.n = 0
            /\ last.op = "read_file" => last.ret = -1

\* a cycle of three links: the 16 lookups are used up, read_file fails
C8_Witness ==
    /\ last.op = "read_file"
    /\ tar = Closed(Cycle3)
    /\ last.path = <<108>>
    /\ resolve_path(tar, 0, last.path).lookups = 16
    /\ last.ret = -1

(***************************************************************************)
(* Archives for the hop bound: a chain of k links la -> lb -> ... ending   *)
(* at the regular file f, the links stored before or after the file.       *)
(***************************************************************************)
ChainName(i) == <<108, 96 + i>>

ChainFile == <<102>>

Chain(k) ==
    [i \in 1..k |->
        Link(ChainName(i), IF i = k THEN ChainFile ELSE ChainName(i + 1))]

ChainArchives ==
    {Closed(Chain(k) \o <<File(ChainFile, 10)>>) : k \in 0..MaxChain}
    \cup {Closed(<<File(ChainFile, 10)>> \o Chain(k)) : k \in 0..MaxChain}

\* the number of links of the chain
ChainDepth(t) == EntryCount(t.hdrs) - 1

ChainPaths == {ChainName(1), ChainFile}

InitChain ==
    /\ tar \in ChainArchives
    /\ pos = 0
    /\ last = NoCall

ReadChainOnce == Idle /\ ReadFileIn(ChainPaths, {0, 8}, {MaxCap})
IsSymlinkOnce == Idle /\ IsSymlinkIn(ChainPaths)

NextChain ==
    \/ CallerMoves
    \/ ReadChainOnce
    \/ IsSymlinkOnce

SpecChain == InitChain /\ [][NextChain]_vars

\* C7: a path that reaches a regular file through a chain of 16 links
\* resolves (read_file on it reads the file), and through a chain of 17
\* links it does not (read_file returns -1).
C7_HopBound ==
    (last.op = "read_file" /\ last.path = ChainName(1)) =>
        /\ ChainDepth(tar) = 16 =>
              /\ last.ret = 10 - last.offset - last.n
              /\ last.n = Min(10 - last.offset, last.cap)
        /\ ChainDepth(tar) = 17 => last.ret = -1

\* what the loop of resolve_path gives: chains of up to 15 links resolve,
\* longer ones do not
C7_SixteenLookups ==
    (last.op = "read_file" /\ last.path = ChainName(1)
       /\ ChainDepth(tar) >= 1) =>
        IF ChainDepth(tar) <= MAXDEPTH - 1
        THEN last.ret = 10 - last.offset - last.n
        ELSE last.ret = -1

(***************************************************************************)
(* Archives for sequences of calls: whole streams of up to MaxEntries      *)
(* entries, and one archive cut short at every block, with every seek      *)
(* limit and with every failing read offset.                               *)
(***************************************************************************)
CoreBlocks ==
    {File(<<97>>, 10), Dir(<<100, 47>>), File(<<100, 47, 97>>, 513),
     Link(<<108>>, <<97>>)}

\* l -> a, a (10 bytes), d/, d/a, and the two all-zero blocks
FaultBase ==
    Closed(<<Link(<<108>>, <<97>>), File(<<97>>, 10), Dir(<<100, 47>>),
             File(<<100, 47, 97>>, 0)>>)

FaultBlocks == FaultBase.len \div BLOCK

FaultyArchives ==
    {[FaultBase EXCEPT !.len = k * BLOCK + e] :
        k \in 0..(FaultBlocks - 1), e \in {0, 5}}
    \cup {[FaultBase EXCEPT !.seekMax = k * BLOCK - 1] :
             k \in 0..(FaultBlocks - 1)}
    \cup {[FaultBase EXCEPT !.bad = k * BLOCK] : k \in 0..(FaultBlocks - 1)}

Archives ==
    {Closed(q) : q \in SeqsUpTo(CoreBlocks, MaxEntries)} \cup FaultyArchives

Init ==
    /\ tar \in Archives
    /\ pos = 0
    /\ last = NoCall

Spec == Init /\ [][Next]_vars

\* C9: whatever offset the descriptor stands at when a public operation is
\* called (left there by earlier calls or by the caller), the operation
\* returns and writes what it does with the descriptor at offset 0.
C9_PositionIndependent ==
    /\ last.op = "check_archive" => last.ret = check_archive(tar, 0).ret
    /\ last.op = "exists" => last.ret = exists(tar, 0, last.path).ret
    /\ last.op = "is_dir" => last.ret = is_dir(tar, 0, last.path).ret
    /\ last.op = "is_file" => last.ret = is_file(tar, 0, last.path).ret
    /\ last.op = "is_symlink" => last.ret = is_symlink(tar, 0, last.path).ret
    /\ last.op = "list" =>
          LET r == list(tar, 0, last.path, last.cap)
          IN  last.ret = r.ret /\ last.n = r.n /\ last.buf = r.buf
    /\ last.op = "read_file" =>
          LET r == read_file(tar, 0, last.path, last.offset, last.cap)
          IN  last.ret = r.ret /\ last.n = r.n /\ last.buf = r.buf

\* list called with the descriptor away from offset 0 lists a directory
C9_Witness ==
    /\ last.op = "list"
    /\ last.moved
    /\ last.path = <<100>>
    /\ last.ret = 1
    /\ last.n = 1

\* C10: a call during which a seek failed or a header read gave other than
\* a whole block returns an error: a negative value from check_archive and
\* read_file, 0 from the lookups and from list.
C10_IoFailureAborts ==
    last.io =>
        /\ last.op \in {"check_archive", "read_file"} => last.ret < 0
        /\ last.op \in {"exists", "is_dir", "is_file", "is_symlink", "list"} =>
              last.ret = 0

====
